---- MODULE Spec2Model ----
(***************************************************************************)
(* BitNames validation and state-transition core (src/src/validation.rs).  *)
(*                                                                         *)
(* The state is one BitNamesState over a fresh store: the six heed         *)
(* databases and the in-memory best_block_height.  Hashes are modelled as  *)
(* injective constructors: txid(tx) is the transaction itself and          *)
(* blake2b_hmac(key, salt) is the pair <<key, salt>>.  An Output is        *)
(* modelled by its content; the address is read only by the external      *)
(* authorization crate, whose verdict is an input of the operations.       *)
(***************************************************************************)
EXTENDS Integers, Sequences, FiniteSets, TLC

\* ---------------------------------------------------------------- bounds
NumKeys == 1
NumSalts == 2
NumDeposits == 1
MaxInputs == 1
MaxOutputs == 1
MaxTxs == 2
MaxHeight == 3
MaxConnected == 3
MaxWideInputs == 2
MaxWideOutputs == 2
MaxWideConnected == 2

\* ------------------------------------------------------------- constants
COMMITMENT_MAX_AGE == 1

Keys == 1..NumKeys
Salts == 1..NumSalts
Values == {"v"}

\* ----------------------------------------------------------------- state
VARIABLES
    utxos,                  \* OutPoint -> Output
    commitment_to_height,   \* Commitment -> u32
    commitment_to_outpoint, \* Commitment -> OutPoint
    key_to_commitment,      \* Key -> Commitment
    commitment_to_key,      \* Commitment -> Key
    key_to_value,           \* Key -> Option<Value>
    best_block_height,      \* u32, in memory
    op,                     \* the caller's position: "idle", or the operation that has just returned
    result,                 \* what that operation returned
    arg,                    \* the arguments it was called with
    born,                   \* history: OutPoint of a Commitment output -> height of the block that connected it
    spent,                  \* history: every OutPoint consumed by a connected body
    ntx,                    \* history: the number of transactions connected so far
    data                    \* NameServer: Key -> the plaintext stored for it

tables == <<utxos, commitment_to_height, commitment_to_outpoint,
            key_to_commitment, commitment_to_key, key_to_value>>
hist == <<op, result, arg, born, spent, ntx>>
vars == <<tables, best_block_height, hist, data>>

\* ------------------------------------------------------------ data model
None == [some |-> FALSE]
Some(v) == [some |-> TRUE, val |-> v]

blake2b_hmac(key, salt) == <<key, salt>>
Commitments == {blake2b_hmac(k, s) : k \in Keys, s \in Salts}

ValueOut(n) == [type |-> "Value", value |-> n]
CommitmentOut(c) == [type |-> "Commitment", commitment |-> c]
RevealOut(s, k, v) == [type |-> "Reveal", salt |-> s, key |-> k, value |-> v]
KeyValueOut(k, v) == [type |-> "KeyValue", key |-> k, value |-> v]

Regular(tx, vout) == [kind |-> "Regular", txid |-> tx, vout |-> vout]
Deposit(id) == [kind |-> "Deposit", id |-> id]

EmptyMap == [x \in {} |-> x]
Put(m, k, v) == [x \in DOMAIN m \cup {k} |-> IF x = k THEN v ELSE m[x]]
DeleteAll(m, ks) == [x \in DOMAIN m \ ks |-> m[x]]

Ok == [kind |-> "Ok", info |-> <<>>]
Err(kind, info) == [kind |-> kind, info |-> info]

\* Rust u32 arithmetic.  On a - b with a < b a debug build panics and a release
\* build wraps to 2^32 + (a - b).  A u32 is held by a representative of its
\* residue modulo 2^32: a negative n stands for 2^32 + n, which is beyond every
\* height the model reaches.
SubU32(a, b) == a - b
GtU32(a, b) == a < 0 \/ a > b
Panic(what) == Err("Panic", <<what>>)

\* ------------------------------------------------------------- sequences
RECURSIVE SeqsUpTo(_, _)
SeqsUpTo(S, n) ==
    IF n = 0 THEN {<<>>}
    ELSE LET shorter == SeqsUpTo(S, n - 1)
         IN shorter \cup {Append(q, x) : q \in {r \in shorter : Len(r) = n - 1}, x \in S}

RECURSIVE Flatten(_)
Flatten(txs) ==
    IF txs = <<>> THEN <<>> ELSE Head(txs).inputs \o Flatten(Tail(txs))

RECURSIVE Sum(_)
Sum(q) == IF q = <<>> THEN 0 ELSE Head(q) + Sum(Tail(q))

Range(q) == {q[i] : i \in DOMAIN q}
txid(transaction) == transaction
OutPointsOf(transaction) ==
    {Regular(txid(transaction), i - 1) : i \in DOMAIN transaction.outputs}

\* ------------------------------------------------- external collaborators
\* sdk_types::GetValue for an output: Content::Value(v) is v, Content::Custom(_) is 0.
get_value(output) == IF output.type = "Value" THEN output.value ELSE 0

\* sdk_types::validate_transaction: inputs distinct, value_in >= value_out.
sdk_validate_transaction(spent_utxos, transaction) ==
    IF Cardinality(Range(transaction.inputs)) # Len(transaction.inputs)
    THEN Err("Sdk", <<"DoubleSpend">>)
    ELSE IF Sum([i \in DOMAIN transaction.outputs |-> get_value(transaction.outputs[i])])
            > Sum([i \in DOMAIN spent_utxos |-> get_value(spent_utxos[i])])
    THEN Err("Sdk", <<"NotBalanced">>)
    ELSE Ok

RECURSIVE sdk_validate_each(_, _)
sdk_validate_each(spent_utxos, txs) ==
    IF txs = <<>> THEN Ok
    ELSE LET n == Len(Head(txs).inputs)
             r == sdk_validate_transaction(SubSeq(spent_utxos, 1, n), Head(txs))
         IN IF r # Ok THEN r
            ELSE sdk_validate_each(SubSeq(spent_utxos, n + 1, Len(spent_utxos)), Tail(txs))

\* sdk_types::validate_body: no OutPoint is spent twice in the body, every
\* transaction is balanced.
sdk_validate_body(spent_utxos, body) ==
    IF Cardinality(Range(Flatten(body))) # Len(Flatten(body))
    THEN Err("Sdk", <<"DoubleSpend">>)
    ELSE sdk_validate_each(spent_utxos, body)

\* ------------------------------------------------------------ validation
\* Vec<Option<Output>>: the stored output of every input, None where absent.
get_utxos(inputs) ==
    [i \in DOMAIN inputs |->
        IF inputs[i] \in DOMAIN utxos THEN Some(utxos[inputs[i]]) ELSE None]

AllSome(opts) == \A i \in DOMAIN opts : opts[i].some
Unwrapped(opts) == [i \in DOMAIN opts |-> opts[i].val]

get_commitment_height(commitment) ==
    IF commitment \in DOMAIN commitment_to_height
    THEN [ok |-> TRUE, val |-> commitment_to_height[commitment]]
    ELSE [ok |-> FALSE, err |-> Err("CommitmentNotFound", <<commitment>>)]

get_key_height(key) ==
    IF key \notin DOMAIN key_to_commitment
    THEN [ok |-> FALSE, err |-> Err("KeyNotFound", <<key>>)]
    ELSE get_commitment_height(key_to_commitment[key])

spent_commitments(spent_utxos) ==
    {spent_utxos[i].commitment :
        i \in {j \in DOMAIN spent_utxos : spent_utxos[j].type = "Commitment"}}

spent_keys(spent_utxos) ==
    {spent_utxos[i].key :
        i \in {j \in DOMAIN spent_utxos : spent_utxos[j].type \in {"Reveal", "KeyValue"}}}

\* Lines 124-132 for one spent commitment: the errors it can raise.
AgeErrors(commitment, block_height) ==
    LET h == get_commitment_height(commitment)
    IN IF ~h.ok THEN {h.err}
       ELSE (IF block_height < h.val THEN {Panic("subtract with overflow")} ELSE {})
            \cup
            (IF GtU32(SubU32(block_height, h.val), COMMITMENT_MAX_AGE)
             THEN {Err("RevealTooLate",
                       <<commitment,
                         SubU32(SubU32(block_height, h.val), COMMITMENT_MAX_AGE)>>)}
             ELSE {})

\* A tie-break that also rejects equal heights.
TieBreak_rejects_equal(key, commitment) ==
    LET commitment_height == get_commitment_height(commitment)
        prev_commitment_height == get_key_height(key)
    IN IF ~commitment_height.ok THEN commitment_height.err
       ELSE IF ~prev_commitment_height.ok THEN prev_commitment_height.err
       ELSE IF prev_commitment_height.val <= commitment_height.val
       THEN Err("KeyAlreadyRegistered",
                <<key, prev_commitment_height.val, commitment_height.val>>)
       ELSE Ok

\* Lines 144-154: the tie-break of a Reveal for a key that key_to_value holds.
TieBreak(key, commitment) ==
    LET commitment_height == get_commitment_height(commitment)
        prev_commitment_height == get_key_height(key)
    IN IF ~commitment_height.ok THEN commitment_height.err
       ELSE IF ~prev_commitment_height.ok THEN prev_commitment_height.err
       ELSE IF prev_commitment_height.val < commitment_height.val
       THEN Err("KeyAlreadyRegistered",
                <<key, prev_commitment_height.val, commitment_height.val>>)
       ELSE Ok

\* Lines 134-162 for one output.
OutputCheck(sc, sk, output) ==
    IF output.type = "Reveal"
    THEN LET commitment == blake2b_hmac(output.key, output.salt)
         IN IF commitment \notin sc
            THEN Err("InvalidNameCommitment", <<output.key, output.salt, commitment>>)
            ELSE IF output.key \in DOMAIN key_to_value
            THEN TieBreak(output.key, commitment)
            ELSE Ok
    ELSE IF output.type = "KeyValue"
    THEN IF output.key \notin sk THEN Err("InvalidKey", <<output.key>>) ELSE Ok
    ELSE Ok

RECURSIVE OutputsCheck(_, _, _)
OutputsCheck(sc, sk, outputs) ==
    IF outputs = <<>> THEN Ok
    ELSE LET r == OutputCheck(sc, sk, Head(outputs))
         IN IF r # Ok THEN r ELSE OutputsCheck(sc, sk, Tail(outputs))

\* The set of results the call can return: the spent commitments are iterated
\* in the order of a HashSet, so any of the failing ones can be reported.
validate_transaction_pure(spent_utxos, block_height, transaction) ==
    LET sc == spent_commitments(spent_utxos)
        sk == spent_keys(spent_utxos)
        late == UNION {AgeErrors(c, block_height) : c \in sc}
    IN IF late # {} THEN late
       ELSE {OutputsCheck(sc, sk, transaction.outputs)}

\* Lines 91-98: the slice of every transaction is spent_utxos[index..inputs.len()].
RECURSIVE validate_each(_, _, _, _)
validate_each(spent_utxos, block_height, txs, index) ==
    IF txs = <<>> THEN {Ok}
    ELSE LET n == Len(Head(txs).inputs)
         IN IF index > n THEN {Panic("slice index")}
            ELSE LET rs == validate_transaction_pure(
                               SubSeq(spent_utxos, index + 1, n), block_height, Head(txs))
                 IN IF rs # {Ok} THEN rs
                    ELSE validate_each(spent_utxos, block_height, Tail(txs), index + n)

\* authorized is the verdict of verify_authorizations(body).
validate_body(block_height, body, authorized) ==
    IF ~authorized THEN {Err("Authorization", <<>>)}
    ELSE LET found == get_utxos(Flatten(body))
         IN IF ~AllSome(found) THEN {Panic("unwrap on None")}
            ELSE LET rs == validate_each(Unwrapped(found), block_height, body, 0)
                 IN IF rs # {Ok} THEN rs
                    ELSE {sdk_validate_body(Unwrapped(found), body)}

validate_transaction(transaction) ==
    LET found == get_utxos(transaction.inputs)
    IN IF ~AllSome(found) THEN {Panic("unwrap on None")}
       ELSE LET rs == validate_transaction_pure(
                          Unwrapped(found), best_block_height + 1, transaction)
            IN IF rs # {Ok} THEN rs
               ELSE {sdk_validate_transaction(Unwrapped(found), transaction)}

\* ------------------------------------------------------ state transition
Tables ==
    [utxos |-> utxos,
     commitment_to_height |-> commitment_to_height,
     commitment_to_outpoint |-> commitment_to_outpoint,
     key_to_commitment |-> key_to_commitment,
     commitment_to_key |-> commitment_to_key,
     key_to_value |-> key_to_value]

\* Lines 219-242: one output of a connected transaction.
PutOutput(S, outpoint, output, height) ==
    LET T == IF output.type = "KeyValue"
             THEN [S EXCEPT !.key_to_value = Put(@, output.key, output.value)]
             ELSE IF output.type = "Reveal"
             THEN LET commitment == blake2b_hmac(output.key, output.salt)
                  IN [S EXCEPT
                        !.key_to_commitment = Put(@, output.key, commitment),
                        !.commitment_to_key = Put(@, commitment, output.key),
                        !.key_to_value = Put(@, output.key, None)]
             ELSE IF output.type = "Commitment"
             THEN [S EXCEPT
                     !.commitment_to_height = Put(@, output.commitment, height),
                     !.commitment_to_outpoint = Put(@, output.commitment, outpoint)]
             ELSE S
    IN [T EXCEPT !.utxos = Put(@, outpoint, output)]

RECURSIVE PutOutputs(_, _, _, _)
PutOutputs(S, transaction, vout, height) ==
    IF vout >= Len(transaction.outputs) THEN S
    ELSE PutOutputs(
             PutOutput(S, Regular(txid(transaction), vout),
                       transaction.outputs[vout + 1], height),
             transaction, vout + 1, height)

\* Lines 209-244: the inputs leave utxos, then the outputs enter in order.
RECURSIVE ConnectTransactions(_, _, _)
ConnectTransactions(S, txs, height) ==
    IF txs = <<>> THEN S
    ELSE LET transaction == Head(txs)
             T == [S EXCEPT !.utxos = DeleteAll(@, Range(transaction.inputs))]
         IN ConnectTransactions(PutOutputs(T, transaction, 0, height), Tail(txs), height)

\* A sweep that lets a commitment live one block longer.
expired_commitments_late(S, height) ==
    {c \in DOMAIN S.commitment_to_height :
        GtU32(SubU32(height, S.commitment_to_height[c]), COMMITMENT_MAX_AGE + 1)}

\* Lines 245-251.
expired_commitments(S, height) ==
    {c \in DOMAIN S.commitment_to_height :
        GtU32(SubU32(height, S.commitment_to_height[c]), COMMITMENT_MAX_AGE)}

\* A sweep that also deletes the value of the key of an expired commitment.
Sweep_deletes_value(S, expired) ==
    [S EXCEPT
       !.key_to_commitment =
           DeleteAll(@, {S.commitment_to_key[c] : c \in expired \cap DOMAIN S.commitment_to_key}),
       !.commitment_to_key = DeleteAll(@, expired),
       !.key_to_value =
           DeleteAll(@, {S.commitment_to_key[c] : c \in expired \cap DOMAIN S.commitment_to_key}),
       !.utxos = DeleteAll(@, {S.commitment_to_outpoint[c] :
                                  c \in expired \cap DOMAIN S.commitment_to_outpoint}),
       !.commitment_to_height = DeleteAll(@, expired),
       !.commitment_to_outpoint = DeleteAll(@, expired)]

\* A sweep that forgets to delete the outpoint of an expired commitment.
Sweep_keeps_outpoint(S, expired) ==
    [S EXCEPT
       !.key_to_commitment =
           DeleteAll(@, {S.commitment_to_key[c] : c \in expired \cap DOMAIN S.commitment_to_key}),
       !.commitment_to_key = DeleteAll(@, expired),
       !.utxos = DeleteAll(@, {S.commitment_to_outpoint[c] :
                                  c \in expired \cap DOMAIN S.commitment_to_outpoint}),
       !.commitment_to_height = DeleteAll(@, expired)]

\* Lines 252-265; the deletions of different commitments commute.
Sweep(S, expired) ==
    [S EXCEPT
       !.key_to_commitment =
           DeleteAll(@, {S.commitment_to_key[c] : c \in expired \cap DOMAIN S.commitment_to_key}),
       !.commitment_to_key = DeleteAll(@, expired),
       !.utxos = DeleteAll(@, {S.commitment_to_outpoint[c] :
                                  c \in expired \cap DOMAIN S.commitment_to_outpoint}),
       !.commitment_to_height = DeleteAll(@, expired),
       !.commitment_to_outpoint = DeleteAll(@, expired)]

Commit(S) ==
    /\ utxos' = S.utxos
    /\ commitment_to_height' = S.commitment_to_height
    /\ commitment_to_outpoint' = S.commitment_to_outpoint
    /\ key_to_commitment' = S.key_to_commitment
    /\ commitment_to_key' = S.commitment_to_key
    /\ key_to_value' = S.key_to_value

\* History of a connected body: where its Commitment outputs were born, what it spent.
BornIn(body, height) ==
    LET outs == UNION {{<<Regular(txid(body[t]), i - 1), body[t].outputs[i]>> :
                          i \in DOMAIN body[t].outputs} : t \in DOMAIN body}
        commits == {p \in outs : p[2].type = "Commitment"}
    IN [o \in DOMAIN born \cup {p[1] : p \in commits} |->
           IF o \in {p[1] : p \in commits} THEN height ELSE born[o]]

\* A validation that runs after the increment of the height.
rejected_after_increment(r) ==
    /\ result' = r
    /\ best_block_height' = best_block_height + 1
    /\ UNCHANGED <<tables, born, spent, ntx>>

\* The early return of line 206: nothing was written, best_block_height is as it was.
rejected(r) ==
    /\ result' = r
    /\ UNCHANGED <<tables, best_block_height, born, spent, ntx>>

\* An error of heed in lines 209-266: the write transaction is dropped, the
\* increment of line 207 stays.
aborted(r, height) ==
    /\ result' = r
    /\ best_block_height' = height
    /\ UNCHANGED <<tables, born, spent, ntx>>

\* Line 248 subtracts a recorded height from best_block_height: with a recorded
\* height above it a debug build panics and a release build wraps.
SweepOverflows(S, height) ==
    \E c \in DOMAIN S.commitment_to_height : height < S.commitment_to_height[c]

\* Lines 252-266: the sweep and the commit of the write transaction.
Swept(S, expired, body, height) ==
    IF ~(expired \subseteq DOMAIN S.commitment_to_outpoint)
    THEN \E c \in expired \ DOMAIN S.commitment_to_outpoint :
             aborted(Err("CommitmentNotFound", <<c>>), height)
    ELSE /\ Commit(Sweep(S, expired))
         /\ best_block_height' = height
         /\ result' = Ok
         /\ born' = BornIn(body, height)
         /\ spent' = spent \cup Range(Flatten(body))
         /\ ntx' = ntx + Len(body)

\* fail: "write_txn" is a storage error in line 201, "write" one in lines 209-266.
connect_body(body, authorized, fail) ==
    /\ op' = "connect_body"
    /\ arg' = [body |-> body, authorized |-> authorized, fail |-> fail]
    /\ IF fail = "write_txn"
       THEN rejected(Err("Heed", <<>>))
       ELSE \E r \in validate_body(best_block_height + 1, body, authorized) :
            IF r # Ok
            THEN rejected(r)
            ELSE LET height == best_block_height + 1
                     S == ConnectTransactions(Tables, body, height)
                     expired == expired_commitments(S, height)
                 IN IF fail = "write"
                    THEN aborted(Err("Heed", <<>>), height)
                    ELSE IF SweepOverflows(S, height)
                    THEN \/ aborted(Panic("subtract with overflow"), height)
                         \/ Swept(S, expired, body, height)
                    ELSE Swept(S, expired, body, height)

\* A connect_deposits that also counts as a block.
connect_deposits_bumps_height(deposits, fail) ==
    /\ op' = "connect_deposits"
    /\ arg' = [deposits |-> deposits, fail |-> fail]
    /\ IF fail
       THEN /\ result' = Err("Heed", <<>>)
            /\ UNCHANGED <<utxos, best_block_height>>
       ELSE /\ result' = Ok
            /\ best_block_height' = best_block_height + 1
            /\ utxos' = [o \in DOMAIN utxos \cup DOMAIN deposits |->
                            IF o \in DOMAIN deposits THEN deposits[o] ELSE utxos[o]]
    /\ UNCHANGED <<commitment_to_height, commitment_to_outpoint, key_to_commitment,
                   commitment_to_key, key_to_value, born, spent, ntx>>

\* Lines 44-51.
connect_deposits(deposits, fail) ==
    /\ op' = "connect_deposits"
    /\ arg' = [deposits |-> deposits, fail |-> fail]
    /\ IF fail
       THEN /\ result' = Err("Heed", <<>>)
            /\ UNCHANGED utxos
       ELSE /\ result' = Ok
            /\ utxos' = [o \in DOMAIN utxos \cup DOMAIN deposits |->
                            IF o \in DOMAIN deposits THEN deposits[o] ELSE utxos[o]]
    /\ UNCHANGED <<commitment_to_height, commitment_to_outpoint, key_to_commitment,
                   commitment_to_key, key_to_value, best_block_height,
                   born, spent, ntx>>

Init ==
    /\ utxos = EmptyMap
    /\ commitment_to_height = EmptyMap
    /\ commitment_to_outpoint = EmptyMap
    /\ key_to_commitment = EmptyMap
    /\ commitment_to_key = EmptyMap
    /\ key_to_value = EmptyMap
    /\ best_block_height = 0
    /\ op = "idle"
    /\ result = Ok
    /\ arg = <<>>
    /\ born = EmptyMap
    /\ spent = {}
    /\ ntx = 0
    /\ data = EmptyMap

\* ---------------------------------------------------------------- inputs
OutputPool ==
    {ValueOut(1)}
    \cup {CommitmentOut(c) : c \in Commitments}
    \cup {RevealOut(s, k, v) : s \in Salts, k \in Keys, v \in Values}
    \cup {KeyValueOut(k, Some(v)) : k \in Keys, v \in Values}

\* The OutPoints a caller can name: the live ones and the ones already spent.
InputPool == DOMAIN utxos \cup spent

Transactions(pool) ==
    {[inputs |-> i, outputs |-> o] :
        i \in SeqsUpTo(pool, MaxInputs), o \in SeqsUpTo(OutputPool, MaxOutputs)}

\* A later transaction of a body can also name the outputs of an earlier one.
RECURSIVE Bodies(_, _)
Bodies(pool, n) ==
    IF n = 0 THEN {<<>>}
    ELSE {<<>>} \cup
         UNION {{<<t>> \o b : b \in Bodies(pool \cup OutPointsOf(t), n - 1)} :
                   t \in Transactions(pool)}

DepositMaps ==
    UNION {[ids -> {ValueOut(1)}] : ids \in SUBSET {Deposit(i) : i \in 1..NumDeposits}}

\* The bodies a caller submits: at most MaxTxs transactions, and no more than
\* the run may still connect.
Min(a, b) == IF a < b THEN a ELSE b
CallBodies == Bodies(InputPool, Min(MaxTxs, MaxConnected - ntx))

\* --------------------------------------------------------------- actions
ValidateTransaction ==
    /\ op = "idle"
    /\ \E transaction \in Transactions(InputPool) :
       \E r \in validate_transaction(transaction) :
        /\ op' = "validate_transaction"
        /\ arg' = [transaction |-> transaction]
        /\ result' = r
        /\ UNCHANGED <<tables, best_block_height, born, spent, ntx, data>>

ValidateBody ==
    /\ op = "idle"
    /\ \E body \in CallBodies, authorized \in BOOLEAN, block_height \in 0..(MaxHeight + 1) :
       \E r \in validate_body(block_height, body, authorized) :
        /\ op' = "validate_body"
        /\ arg' = [body |-> body, authorized |-> authorized, block_height |-> block_height]
        /\ result' = r
        /\ UNCHANGED <<tables, best_block_height, born, spent, ntx, data>>

ConnectDeposits ==
    /\ op = "idle"
    /\ \E deposits \in DepositMaps, fail \in BOOLEAN :
        connect_deposits(deposits, fail)
    /\ UNCHANGED data

ConnectBody ==
    /\ op = "idle"
    /\ best_block_height < MaxHeight
    /\ \E body \in CallBodies, authorized \in BOOLEAN,
          fail \in {"none", "write_txn", "write"} :
        connect_body(body, authorized, fail)
    /\ UNCHANGED data

\* The caller has looked at the result and is ready for the next call.
Return ==
    /\ op # "idle"
    /\ op' = "idle"
    /\ result' = Ok
    /\ arg' = <<>>
    /\ UNCHANGED <<tables, best_block_height, born, spent, ntx, data>>

Next ==
    \/ Return
    \/ ConnectDeposits
    \/ ValidateTransaction
    \/ ValidateBody
    \/ ConnectBody

Spec == Init /\ [][Next]_vars

\* ------------------------------------------- transactions of several outputs
\* The same operations, called with one-transaction bodies whose transaction
\* has up to MaxWideInputs inputs and MaxWideOutputs outputs.
WideTransactions(pool) ==
    {[inputs |-> i, outputs |-> o] :
        i \in SeqsUpTo(pool, MaxWideInputs), o \in SeqsUpTo(OutputPool, MaxWideOutputs)}

WideBodies ==
    {<<>>} \cup (IF ntx < MaxWideConnected
                 THEN {<<t>> : t \in WideTransactions(InputPool)}
                 ELSE {})

ConnectBodyWide ==
    /\ op = "idle"
    /\ best_block_height < MaxHeight
    /\ \E body \in WideBodies, authorized \in BOOLEAN :
        connect_body(body, authorized, "none")
    /\ UNCHANGED data

NextWide ==
    \/ Return
    \/ ConnectDeposits
    \/ ConnectBodyWide

SpecWide == Init /\ [][NextWide]_vars

\* ------------------------------------------------------------ name server
\* src/src/nameserver.rs: an off-chain directory of plaintexts, checked against
\* key_to_value.  sdk_types::hash is modelled as an injective function: the
\* name "a" hashes to key 1 and the plaintext "x" to the value "v"; the name
\* "b" hashes to a key no transaction of the model carries, the plaintext "y"
\* to a hash no output carries.
Names == {"a", "b"}
Plaintexts == {"x", "y"}
hash_name(name) == IF name = "a" THEN 1 ELSE NumKeys + 1
hash_value(value) == IF value = "x" THEN "v" ELSE <<"hash", value>>

NameServerErr(what) == Err("NameServer", <<what>>)

\* Lines 11-27.  The table holds Option<Value>: the hash of the plaintext
\* equals the bound value when the entry is Some of that hash.
store(name, value) ==
    LET key == hash_name(name)
    IN /\ op' = "store"
       /\ arg' = [name |-> name, value |-> value]
       /\ IF key \in DOMAIN key_to_value
          THEN IF Some(hash_value(value)) # key_to_value[key]
               THEN /\ result' = NameServerErr("attempting to store invalid value")
                    /\ UNCHANGED data
               ELSE /\ data' = Put(data, key, value)
                    /\ result' = Ok
          ELSE /\ result' = NameServerErr("not registered")
               /\ UNCHANGED data
       /\ UNCHANGED <<tables, best_block_height, born, spent, ntx>>

\* Lines 29-40: self.data[&key] panics when data holds nothing for the key.
lookup(name) ==
    LET key == hash_name(name)
    IN /\ op' = "lookup"
       /\ arg' = [name |-> name]
       /\ result' =
            IF key \in DOMAIN key_to_value
            THEN IF key \notin DOMAIN data
                 THEN Panic("HashMap index")
                 ELSE IF Some(hash_value(data[key])) # key_to_value[key]
                 THEN NameServerErr("store has invalid value")
                 ELSE [kind |-> "Ok", info |-> <<data[key]>>]
            ELSE NameServerErr("not registered")
       /\ UNCHANGED <<tables, best_block_height, born, spent, ntx, data>>

Store ==
    /\ op = "idle"
    /\ \E name \in Names, value \in Plaintexts : store(name, value)

Lookup ==
    /\ op = "idle"
    /\ \E name \in Names : lookup(name)

NextNameServer ==
    \/ Return
    \/ ConnectBody
    \/ Store
    \/ Lookup

SpecNameServer == Init /\ [][NextNameServer]_vars

\* ------------------------------------------------------------------ reopen
\* Lines 24-42 on a store that already holds tables: create_database opens the
\* existing databases, and best_block_height, which is kept in memory only,
\* starts at 0 again.
new ==
    /\ op' = "new"
    /\ arg' = <<>>
    /\ result' = Ok
    /\ best_block_height' = 0
    /\ UNCHANGED <<tables, born, spent, ntx, data>>

New ==
    /\ op = "idle"
    /\ new

NextReopen ==
    \/ Return
    \/ ConnectBody
    \/ ValidateTransaction
    \/ New

SpecReopen == Init /\ [][NextReopen]_vars

\* ================================================================ claims
Connected == op = "connect_body" /\ result = Ok

\* The errors of verify_authorizations, of the BitNames rules and of the base
\* UTXO rules; "Heed" is the storage error and "Panic" is no returned error.
ValidationErrors ==
    {"Authorization", "Sdk", "CommitmentNotFound", "RevealTooLate",
     "InvalidNameCommitment", "KeyAlreadyRegistered", "KeyNotFound", "InvalidKey"}

\* C1: when connect_body returns an authorization or validation error, the six
\* tables and best_block_height are exactly as they were before the call.
C1_ErrorLeavesStateUnchanged ==
    [][(op' = "connect_body" /\ result'.kind \in ValidationErrors)
          => UNCHANGED <<tables, best_block_height>>]_vars

\* C1 witness: connect_body has returned a BitNames validation error in a state
\* that holds UTXOs and connected blocks.
C1_Witness ==
    /\ op = "connect_body"
    /\ result.kind \in {"RevealTooLate", "InvalidNameCommitment", "KeyAlreadyRegistered"}
    /\ DOMAIN utxos # {}
    /\ best_block_height > 0

\* C2: when a storage operation of connect_body fails after validation, the
\* tables and best_block_height are as they were before the call.
C2_StorageFailureIsAtomic ==
    [][(op' = "connect_body" /\ result'.kind = "Heed")
          => UNCHANGED <<tables, best_block_height>>]_vars

BodyInputs(body) == Range(Flatten(body))
BodyOutputs(body) ==
    UNION {Range(body[t].outputs) : t \in DOMAIN body}

\* C3: a Commitment output connected in the block at height h is spent by a
\* connected body only in a block of height at most h + COMMITMENT_MAX_AGE.
C3_CommitmentWindow ==
    Connected =>
        \A o \in BodyInputs(arg.body) \cap DOMAIN born :
            best_block_height <= born[o] + COMMITMENT_MAX_AGE

\* C5: after a successful connect_body every Reveal{salt, key, value} output of
\* the body has key_value[key] = Some(value), key_commitment[key] = commit(key,
\* salt) and commitment_key[commit(key, salt)] = key.
C5_RevealBindsValue ==
    Connected =>
        \A output \in BodyOutputs(arg.body) :
            output.type = "Reveal" =>
                LET commitment == blake2b_hmac(output.key, output.salt)
                IN /\ output.key \in DOMAIN key_to_value
                   /\ key_to_value[output.key] = Some(output.value)
                   /\ output.key \in DOMAIN key_to_commitment
                   /\ key_to_commitment[output.key] = commitment
                   /\ commitment \in DOMAIN commitment_to_key
                   /\ commitment_to_key[commitment] = output.key

\* A later transaction of the body spends a Commitment output of an earlier one
\* and reveals it.
SameBlockReveal(body) ==
    \E t1 \in DOMAIN body, t2 \in DOMAIN body :
        /\ t1 < t2
        /\ \E i \in DOMAIN body[t1].outputs :
            /\ body[t1].outputs[i].type = "Commitment"
            /\ Regular(txid(body[t1]), i - 1) \in Range(body[t2].inputs)
            /\ \E j \in DOMAIN body[t2].outputs :
                /\ body[t2].outputs[j].type = "Reveal"
                /\ blake2b_hmac(body[t2].outputs[j].key, body[t2].outputs[j].salt)
                       = body[t1].outputs[i].commitment

\* The call was a validation of a body for the next block, authorized and
\* without a storage error.
NextBlockCall(o, a, height) ==
    /\ o \in {"validate_body", "connect_body"}
    /\ a.authorized
    /\ o = "connect_body" => a.fail = "none"
    /\ o = "validate_body" => a.block_height = height + 1

\* C6: validate_body and connect_body reject a body with a same-block reveal
\* with a returned error, and leave the state unchanged.
C6_SameBlockRevealRejected ==
    [][(NextBlockCall(op', arg', best_block_height) /\ SameBlockReveal(arg'.body))
          => /\ result'.kind \in ValidationErrors
             /\ UNCHANGED <<tables, best_block_height>>]_vars

\* validate_transaction has been called with a transaction that spends one
\* live Commitment UTXO, young enough for the next block, and reveals it for a
\* key that key_value holds and whose bound commitment has a recorded height.
RevealOfRegisteredKey ==
    /\ op = "validate_transaction"
    /\ Len(arg.transaction.inputs) = 1
    /\ Len(arg.transaction.outputs) = 1
    /\ arg.transaction.outputs[1].type = "Reveal"
    /\ arg.transaction.inputs[1] \in DOMAIN utxos
    /\ utxos[arg.transaction.inputs[1]] =
           CommitmentOut(blake2b_hmac(arg.transaction.outputs[1].key,
                                      arg.transaction.outputs[1].salt))
    /\ utxos[arg.transaction.inputs[1]].commitment \in DOMAIN commitment_to_height
    /\ best_block_height + 1
           - commitment_to_height[utxos[arg.transaction.inputs[1]].commitment]
         <= COMMITMENT_MAX_AGE
    /\ arg.transaction.outputs[1].key \in DOMAIN key_to_value
    /\ arg.transaction.outputs[1].key \in DOMAIN key_to_commitment
    /\ key_to_commitment[arg.transaction.outputs[1].key] \in DOMAIN commitment_to_height

RevealedKey == arg.transaction.outputs[1].key
\* c: the recorded height of the commitment the reveal spends.
CurrHeight == commitment_to_height[utxos[arg.transaction.inputs[1]].commitment]
\* p: the recorded height of the commitment bound to the key.
PrevHeight == commitment_to_height[key_to_commitment[RevealedKey]]

C4_RejectionReached ==
    /\ RevealOfRegisteredKey
    /\ CurrHeight > PrevHeight
    /\ result.kind = "KeyAlreadyRegistered"

\* The transaction spends a live Commitment UTXO whose recorded height is too
\* old for the block at block_height.
LateCommitments(transaction, block_height) ==
    {utxos[o].commitment :
        o \in {x \in Range(transaction.inputs) \cap DOMAIN utxos :
                  /\ utxos[x].type = "Commitment"
                  /\ utxos[x].commitment \in DOMAIN commitment_to_height
                  /\ block_height - commitment_to_height[utxos[x].commitment]
                         > COMMITMENT_MAX_AGE}}

TooLate(commitment, block_height) ==
    Err("RevealTooLate",
        <<commitment,
          block_height - commitment_to_height[commitment] - COMMITMENT_MAX_AGE>>)

\* C7: a transaction that spends a commitment c of recorded height h, validated
\* for a block at height b with b - h > COMMITMENT_MAX_AGE, fails with
\* RevealTooLate{c, late_by = b - h - COMMITMENT_MAX_AGE}, alone or in a body;
\* in particular a matching reveal of a Commitment output connected in block h,
\* offered for a block after h + COMMITMENT_MAX_AGE, fails so.
C7_RevealTooLate ==
    [][/\ op' = "validate_transaction"
          => LET b == best_block_height + 1
                 transaction == arg'.transaction
             IN /\ (Range(transaction.inputs) \subseteq DOMAIN utxos
                    /\ LateCommitments(transaction, b) # {})
                      => \E c \in LateCommitments(transaction, b) :
                             result' = TooLate(c, b)
                /\ \A o \in Range(transaction.inputs) \cap DOMAIN utxos \cap DOMAIN born :
                      (/\ Len(transaction.inputs) = 1
                       /\ b - born[o] > COMMITMENT_MAX_AGE)
                      => result' = Err("RevealTooLate",
                                       <<utxos[o].commitment,
                                         b - born[o] - COMMITMENT_MAX_AGE>>)
       /\ (/\ op' \in {"validate_body", "connect_body"}
           /\ arg'.authorized
           /\ op' = "connect_body" => arg'.fail = "none")
          => LET b == IF op' = "validate_body"
                      THEN arg'.block_height ELSE best_block_height + 1
                 late == UNION {LateCommitments(arg'.body[t], b) : t \in DOMAIN arg'.body}
             IN (BodyInputs(arg'.body) \subseteq DOMAIN utxos /\ late # {})
                   => /\ result' # Ok
                      /\ Len(arg'.body) = 1 => \E c \in late : result' = TooLate(c, b)]_vars

\* C8: an OutPoint consumed by a connected body is absent from utxos in every
\* later state.
C8_NoSpentOutputComesBack ==
    spent \cap DOMAIN utxos = {}

\* C9: once best_block_height > h + COMMITMENT_MAX_AGE, a Commitment output
\* connected at height h is absent from utxos (stated for the states after a
\* successful connect_body, whose sweep has run).
C9_ExpiredCommitmentLeavesUtxos ==
    Connected =>
        \A o \in DOMAIN born :
            best_block_height > born[o] + COMMITMENT_MAX_AGE => o \notin DOMAIN utxos

\* C10: after every successful connect_body no commitment older than
\* COMMITMENT_MAX_AGE remains in commitment_height or commitment_outpoint, and
\* commitment_key has no entry for a commitment absent from commitment_height.
C10_SweepInvariant ==
    Connected =>
        /\ \A c \in DOMAIN commitment_to_height :
              best_block_height - commitment_to_height[c] <= COMMITMENT_MAX_AGE
        /\ DOMAIN commitment_to_outpoint \subseteq DOMAIN commitment_to_height
        /\ DOMAIN commitment_to_key \subseteq DOMAIN commitment_to_height

\* C10 witness: the connect has swept a commitment that a Reveal had bound to
\* its key: its output was born more than COMMITMENT_MAX_AGE blocks ago and the
\* tables have forgotten it.
C10_Witness ==
    /\ Connected
    /\ \E o \in DOMAIN born :
        /\ best_block_height - born[o] > COMMITMENT_MAX_AGE
        /\ DOMAIN commitment_to_height = {}
        /\ DOMAIN key_to_value # {}
        /\ DOMAIN key_to_commitment = {}
\* C11: after every successful connect_body key_commitment and commitment_key
\* are mutual inverses: key_commitment[k] = c if and only if
\* commitment_key[c] = k, for every key k and commitment c.
C11_MutualInverses ==
    Connected =>
        \A k \in Keys, c \in Commitments :
            (k \in DOMAIN key_to_commitment /\ key_to_commitment[k] = c)
                <=> (c \in DOMAIN commitment_to_key /\ commitment_to_key[c] = k)
\* C12: after every successful connect_body, for every commitment c of
\* commitment_outpoint, utxos holds commitment_outpoint[c] and the output
\* stored there is Commitment(c); the registry entries of a commitment leave
\* the tables when a Reveal spends its UTXO.
C12_RegistryPointsAtLiveUtxos ==
    Connected =>
        \A c \in DOMAIN commitment_to_outpoint :
            /\ commitment_to_outpoint[c] \in DOMAIN utxos
            /\ utxos[commitment_to_outpoint[c]] = CommitmentOut(c)
\* C13: commitment_height and commitment_outpoint have the same key set in
\* every reachable state, and the expiry sweep of connect_body never fails
\* with CommitmentNotFound (a CommitmentNotFound of connect_body comes from
\* validation, which leaves best_block_height as it was).
C13_SameKeySet ==
    /\ [](DOMAIN commitment_to_height = DOMAIN commitment_to_outpoint)
    /\ [][(op' = "connect_body" /\ result'.kind = "CommitmentNotFound")
             => best_block_height' = best_block_height]_vars

\* C13 witness: a connect has swept one commitment, found its outpoint and
\* removed it, while a younger commitment stays registered.
C13_Witness ==
    /\ Connected
    /\ DOMAIN commitment_to_height # {}
    /\ \E o \in DOMAIN born :
        /\ best_block_height - born[o] > COMMITMENT_MAX_AGE
        /\ o \notin DOMAIN utxos
        /\ o \notin spent
\* C14: best_block_height equals the number of bodies successfully connected
\* since the state was created: it starts at 0, every successful connect_body
\* adds one to it, and no other call (a failed connect_body, connect_deposits,
\* validate_transaction, validate_body) changes it.
C14_HeightCountsConnectedBodies ==
    [][best_block_height' - best_block_height
          = (IF op' = "connect_body" /\ result' = Ok THEN 1 ELSE 0)]_vars
\* C15: once a key has an entry in key_value it has one in every later state;
\* no operation, the expiry sweep included, deletes an entry of key_value.
C15_BindingsPersist ==
    [][DOMAIN key_to_value \subseteq DOMAIN key_to_value']_vars

\* C15 witness: a connect has swept the commitment of a revealed key (its
\* key_commitment and commitment_key entries are gone while another commitment
\* is still registered) and key_value still holds the key.
C15_Witness ==
    /\ Connected
    /\ \E k \in DOMAIN key_to_value :
        /\ k \notin DOMAIN key_to_commitment
        /\ \A c \in DOMAIN commitment_to_key : commitment_to_key[c] # k
    /\ DOMAIN commitment_to_height # {}
\* The inputs of the call that has returned: those of the transaction or of
\* every transaction of the body.
CallInputs(o, a) ==
    IF o = "validate_transaction" THEN Range(a.transaction.inputs)
    ELSE BodyInputs(a.body)

\* C16: when a transaction or body names an input OutPoint that is not in
\* utxos, validate_transaction, validate_body and connect_body return an
\* UnknownOutpoint error to the caller and leave the state unchanged.
C16_UnknownInputIsAnError ==
    [][(/\ op' \in {"validate_transaction", "validate_body", "connect_body"}
        /\ op' # "validate_transaction" => arg'.authorized
        /\ op' = "connect_body" => arg'.fail = "none"
        /\ ~(CallInputs(op', arg') \subseteq DOMAIN utxos))
          => /\ result'.kind = "UnknownOutpoint"
             /\ UNCHANGED <<tables, best_block_height>>]_vars
\* The value key_value binds to the hash of the name, None when the name is
\* not registered or nothing is bound.
Bound(name) ==
    IF hash_name(name) \in DOMAIN key_to_value
    THEN key_to_value[hash_name(name)] ELSE None

\* C17: store(state, n, v) succeeds only if the value bound to hash(n) equals
\* hash(v); lookup(state, n) returns a plaintext v only if hash(v) equals the
\* value bound to hash(n); in every other case (name not registered, value
\* mismatch, nothing stored for a registered name) the call returns an error.
C17_ResolverSoundness ==
    /\ op = "store" =>
          /\ result.kind \in {"Ok", "NameServer"}
          /\ result.kind = "Ok" => Bound(arg.name) = Some(hash_value(arg.value))
    /\ op = "lookup" =>
          /\ result.kind \in {"Ok", "NameServer"}
          /\ result.kind = "Ok" => Bound(arg.name) = Some(hash_value(result.info[1]))
\* Both outcomes of the resolver are reached: a lookup has returned the
\* plaintext that a store had accepted.
C17_LookupReached ==
    /\ op = "lookup"
    /\ result = [kind |-> "Ok", info |-> <<"x">>]
\* C18: validate_body checks every transaction against the spent outputs of
\* its own inputs, so a body of several transactions with pairwise distinct
\* inputs, each of which validate_transaction accepts in the current state, is
\* accepted by validate_body at best_block_height + 1 when its authorizations
\* verify.
C18_BodyOfValidTransactions ==
    (/\ op = "validate_body"
     /\ arg.authorized
     /\ arg.block_height = best_block_height + 1
     /\ Len(arg.body) >= 2
     /\ Cardinality(BodyInputs(arg.body)) = Len(Flatten(arg.body))
     /\ \A t \in DOMAIN arg.body : validate_transaction(arg.body[t]) = {Ok})
        => result = Ok
\* C19: no body accepted by connect_body contains two Reveal outputs, in the
\* same or in different transactions, for the same key with different
\* commitments.
C19_OneRevealPerKey ==
    Connected =>
        \A o1 \in BodyOutputs(arg.body), o2 \in BodyOutputs(arg.body) :
            (o1.type = "Reveal" /\ o2.type = "Reveal" /\ o1.key = o2.key)
                => blake2b_hmac(o1.key, o1.salt) = blake2b_hmac(o2.key, o2.salt)
\* C20: every height recorded in commitment_height is at least 1 and at most
\* best_block_height in every reachable state, also after BitNamesState::new
\* on a store that holds connected commitments; so the u32 subtractions of the
\* validation at best_block_height + 1 and of the expiry sweep never underflow.
C20_RecordedHeightsInRange ==
    /\ \A c \in DOMAIN commitment_to_height :
          /\ 1 <= commitment_to_height[c]
          /\ commitment_to_height[c] <= best_block_height
    /\ op \in {"validate_transaction", "connect_body"}
          => result # Panic("subtract with overflow")
\* The underflow itself is reached: after a reopen, a call has met a recorded
\* height above the height it validates or sweeps at.
C20_UnderflowReached ==
    /\ op \in {"validate_transaction", "connect_body"}
    /\ result = Panic("subtract with overflow")
\* The OutPoints whose entry of utxos is new or different after the step.
AddedUtxos == {o \in DOMAIN utxos' : o \notin DOMAIN utxos \/ utxos'[o] # utxos[o]}

\* C21: connect_deposits(deposits) changes only utxos: afterwards utxos maps
\* every given OutPoint to its given Output and is unchanged elsewhere, and
\* best_block_height and the five other tables are unchanged; and a UTXO that
\* is not an output of a transaction of a connected body is added by
\* connect_deposits only.
C21_DepositsFrame ==
    [][/\ op' = "connect_deposits"
          => /\ result' = Ok
                => /\ DOMAIN utxos' = DOMAIN utxos \cup DOMAIN arg'.deposits
                   /\ \A o \in DOMAIN arg'.deposits : utxos'[o] = arg'.deposits[o]
                   /\ \A o \in DOMAIN utxos \ DOMAIN arg'.deposits : utxos'[o] = utxos[o]
             /\ UNCHANGED <<commitment_to_height, commitment_to_outpoint,
                            key_to_commitment, commitment_to_key, key_to_value,
                            best_block_height>>
       /\ \A o \in AddedUtxos :
             \/ op' = "connect_deposits" /\ o \in DOMAIN arg'.deposits
             \/ /\ op' = "connect_body"
                /\ result' = Ok
                /\ \E t \in DOMAIN arg'.body : o \in OutPointsOf(arg'.body[t])]_vars

\* C21 witness: connect_deposits has added a deposit to a state that holds
\* registered commitments, a revealed key and connected blocks.
C21_Witness ==
    /\ op = "connect_deposits"
    /\ result = Ok
    /\ DOMAIN arg.deposits # {}
    /\ DOMAIN arg.deposits \subseteq DOMAIN utxos
    /\ DOMAIN commitment_to_height # {}
    /\ DOMAIN key_to_value # {}
    /\ best_block_height > 0
====
